---------------------------- MODULE Spec2Model ----------------------------
(***************************************************************************)
(* ADGM Corporate Agent: the document-analysis pipeline (checklist.py,     *)
(* doc_processor.py, comments_util.py), the reference index (rag.py) and   *)
(* the Analyze handler of app.py.                                          *)
(*                                                                         *)
(* Python strings are TLA+ strings; the string operators below compute on  *)
(* their characters (SubSeq, Len and \o of TLC work on strings).           *)
(***************************************************************************)
EXTENDS Naturals, Integers, Sequences, FiniteSets, TLC

VARIABLES
    uploads,        \* app.py: the uploaded files, in order: [name, paragraphs]
    index,          \* the vector store behind the retriever: chunk metadata
    process_guess,  \* app.py: detect_process_from_docs' result, or None
    doc_infos,      \* analyze_documents: one [name, type, text] per upload
    doc_issues,     \* analyze_documents: _find_red_flags' list, per upload
    report,         \* analyze_documents: the returned report, or NoReport
    rag,            \* build_or_load_vectorstore: the call in progress
    ref_files,      \* data/reference: the state of each reference file
    db,             \* data/.chroma: the persisted index
    doc,            \* _insert_comments: the opened Document
    ins             \* _insert_comments: the loop's position and locals

vars == <<uploads, index, process_guess, doc_infos, doc_issues, report,
          rag, ref_files, db, doc, ins>>

AnalysisVars == <<uploads, process_guess, doc_infos, doc_issues, report>>
RagVars == <<rag, ref_files, db>>
CommentVars == <<doc, ins>>

None == "None"

\* no analysis has run: there is no report
NoReport == [none |-> TRUE]

\* ------------------------------------------------------------------ bounds

MaxUploads == 2

\* ----------------------------------------------------------------- strings

\* the lower case of each ASCII capital letter
LOWER_OF ==
    [A |-> "a", B |-> "b", C |-> "c", D |-> "d", E |-> "e", F |-> "f",
     G |-> "g", H |-> "h", I |-> "i", J |-> "j", K |-> "k", L |-> "l",
     M |-> "m", N |-> "n", O |-> "o", P |-> "p", Q |-> "q", R |-> "r",
     S |-> "s", T |-> "t", U |-> "u", V |-> "v", W |-> "w", X |-> "x",
     Y |-> "y", Z |-> "z"]

Char(s, i) == SubSeq(s, i, i)

\* str.lower() on one character (the ASCII letters; every other character
\* of the inputs used here is its own lower case)
LowerChar(c) == IF c \in DOMAIN LOWER_OF THEN LOWER_OF[c] ELSE c

RECURSIVE Lower(_)
Lower(s) == IF s = "" THEN "" ELSE LowerChar(Char(s, 1)) \o Lower(Tail(s))

\* k in hay
Contains(hay, k) ==
    \E i \in 0..(Len(hay) - Len(k)) : SubSeq(hay, i + 1, i + Len(k)) = k

\* any(k in hay for k in keys)
AnyIn(keys, hay) == \E j \in 1..Len(keys) : Contains(hay, keys[j])

\* sep.join(parts)
RECURSIVE Join(_, _)
Join(parts, sep) ==
    IF parts = <<>> THEN ""
    ELSE IF Len(parts) = 1 THEN parts[1]
    ELSE parts[1] \o sep \o Join(Tail(parts), sep)

\* s[:n]
Prefix(s, n) == SubSeq(s, 1, IF Len(s) < n THEN Len(s) ELSE n)

RECURSIVE Flatten(_)
Flatten(ss) == IF ss = <<>> THEN <<>> ELSE ss[1] \o Flatten(Tail(ss))

\* ------------------------------------------------------------ checklist.py

Processes == {"Company Incorporation", "Employment & HR"}

REQUIRED_DOCS ==
    [p \in Processes |->
        IF p = "Company Incorporation"
        THEN << "Articles of Association",
                "Memorandum of Association",
                "Board Resolution",
                "Shareholder Resolution",
                "UBO Declaration Form",
                "Register of Members and Directors",
                "Incorporation Application Form" >>
        ELSE << "Employment Contract",
                "Offer Letter",
                "Employee Handbook" >>]

\* REQUIRED_DOCS.get(process, [])
RequiredDocsGet(process) ==
    IF process \in DOMAIN REQUIRED_DOCS THEN REQUIRED_DOCS[process] ELSE <<>>

INCORPORATION_KEYS == <<"incorporation", "articles", "memorandum", "ubo", "register">>
EMPLOYMENT_KEYS == <<"employment", "contract", "hr">>

\* a deliberately wrong variant of JoinedNames, used to test the properties: the names joined with no separator
JoinedNamesNoSep(filenames) ==
    Join([i \in 1..Len(filenames) |-> Lower(filenames[i])], "")

\* " ".join([fn.lower() for fn in filenames])
JoinedNames(filenames) ==
    Join([i \in 1..Len(filenames) |-> Lower(filenames[i])], " ")

\* a deliberately wrong variant of detect_process_from_docs, used to test the properties: the default is the second process
DetectDefaultEmployment(filenames) ==
    LET joined == JoinedNames(filenames)
    IN  IF AnyIn(INCORPORATION_KEYS, joined) THEN "Company Incorporation"
        ELSE "Employment & HR"

detect_process_from_docs(filenames) ==
    LET joined == JoinedNames(filenames)
    IN  IF AnyIn(INCORPORATION_KEYS, joined) THEN "Company Incorporation"
        ELSE IF AnyIn(EMPLOYMENT_KEYS, joined) THEN "Employment & HR"
        ELSE "Company Incorporation"

\* the dict, in insertion order (the order its iteration follows)
DOC_TYPE_KEYWORDS == <<
    [doc_type |-> "Articles of Association",
     keys |-> <<"articles of association", "aoa">>],
    [doc_type |-> "Memorandum of Association",
     keys |-> <<"memorandum of association", "moa", "mou">>],
    [doc_type |-> "Board Resolution",
     keys |-> <<"board resolution">>],
    [doc_type |-> "Shareholder Resolution",
     keys |-> <<"shareholder resolution">>],
    [doc_type |-> "UBO Declaration Form",
     keys |-> <<"ubo", "ultimate beneficial owner">>],
    [doc_type |-> "Register of Members and Directors",
     keys |-> <<"register of members", "register of directors">>],
    [doc_type |-> "Incorporation Application Form",
     keys |-> <<"incorporation application", "application form">>],
    [doc_type |-> "Employment Contract",
     keys |-> <<"employment contract", "standard employment contract">>] >>

\* hay = f"{filename.lower()} {text.lower()}"
Haystack(filename, text) == Lower(filename) \o " " \o Lower(text)

\* a deliberately wrong variant of ClassifyFrom, used to test the properties: the last matching entry of the table wins
RECURSIVE ClassifyLastFrom(_, _)
ClassifyLastFrom(hay, i) ==
    IF i > Len(DOC_TYPE_KEYWORDS) THEN "Unknown"
    ELSE LET rest == ClassifyLastFrom(hay, i + 1)
         IN  IF rest # "Unknown" THEN rest
             ELSE IF AnyIn(DOC_TYPE_KEYWORDS[i].keys, hay)
                  THEN DOC_TYPE_KEYWORDS[i].doc_type
                  ELSE "Unknown"

\* the loop of classify_doc_type, from table entry i on
RECURSIVE ClassifyFrom(_, _)
ClassifyFrom(hay, i) ==
    IF i > Len(DOC_TYPE_KEYWORDS) THEN "Unknown"
    ELSE IF AnyIn(DOC_TYPE_KEYWORDS[i].keys, hay)
         THEN DOC_TYPE_KEYWORDS[i].doc_type
         ELSE ClassifyFrom(hay, i + 1)

classify_doc_type(filename, text) == ClassifyFrom(Haystack(filename, text), 1)

\* ---------------------------------------------------------- the retriever

\* vs.as_retriever(search_kwargs={"k": 4})
RETRIEVER_K == 4

Min(a, b) == IF a < b THEN a ELSE b

\* The retriever is the ranked list of chunks of its index: a query is
\* answered with the first min(k, size) of them. (Chroma's ranking depends
\* on the query; the orders it may give are the orders the index lists of
\* the specifications below enumerate.)
get_relevant_documents(retriever, query) ==
    SubSeq(retriever, 1, Min(RETRIEVER_K, Len(retriever)))

\* -------------------------------------------------------- doc_processor.py

BAD_JURISDICTION == <<"uae federal court", "dubai courts", "onshore uae">>
WEAK_LANGUAGE ==
    <<"may at its discretion", "best efforts", "commercially reasonable efforts">>
MISSING_SIGN_KEYS ==
    <<"signature", "signed by", "authorised signatory", "authorized signatory",
      "date", "name">>

max_chars == 20000

\* text = "\n".join(p.text for p in d.paragraphs); return text[:max_chars]
_extract_text(paragraphs) == Prefix(Join(paragraphs, "\n"), max_chars)

JURISDICTION_QUERY == "ADGM jurisdiction clause Companies Regulations courts venue"
WeakQuery(doc_type) ==
    "binding language " \o doc_type \o " ADGM template clause shall must"
SignQuery(doc_type) == doc_type \o " signature block ADGM template"

JURISDICTION_ISSUE == "Jurisdiction references onshore UAE/Federal Courts"
WeakIssue(term) == "Ambiguous/weak obligation: '" \o term \o "'"
SIGNATURE_ISSUE == "Missing or incomplete signatory section."

\* metadata.get(key, default)
MetadataGet(metadata, key, default) ==
    IF key \in DOMAIN metadata THEN metadata[key] ELSE default

\* a deliberately wrong variant of Citation, used to test the properties: no fallback label
CitationNoFallback(refs, fallback) ==
    IF refs # <<>> THEN MetadataGet(refs[1].metadata, "source", "") ELSE ""

\* refs[0].metadata.get("source", fallback) if refs else fallback
Citation(refs, fallback) ==
    IF refs # <<>> THEN MetadataGet(refs[1].metadata, "source", fallback)
    ELSE fallback

JurisdictionIssue(retriever) ==
    [issue |-> JURISDICTION_ISSUE,
     severity |-> "High",
     suggestion |-> "Update governing law and forum to ADGM Courts.",
     citation |-> Citation(get_relevant_documents(retriever, JURISDICTION_QUERY),
                          "ADGM Regulation")]

\* a deliberately wrong variant of JurisdictionFrom, used to test the properties: the loop without its break
RECURSIVE JurisdictionNoBreakFrom(_, _, _)
JurisdictionNoBreakFrom(lowers, retriever, i) ==
    IF i > Len(BAD_JURISDICTION) THEN <<>>
    ELSE IF Contains(lowers, BAD_JURISDICTION[i])
         THEN <<JurisdictionIssue(retriever)>>
              \o JurisdictionNoBreakFrom(lowers, retriever, i + 1)
         ELSE JurisdictionNoBreakFrom(lowers, retriever, i + 1)

\* 1) Wrong jurisdiction: the loop from term i on; it breaks at the first hit
RECURSIVE JurisdictionFrom(_, _, _)
JurisdictionFrom(lowers, retriever, i) ==
    IF i > Len(BAD_JURISDICTION) THEN <<>>
    ELSE IF Contains(lowers, BAD_JURISDICTION[i])
         THEN <<JurisdictionIssue(retriever)>>
         ELSE JurisdictionFrom(lowers, retriever, i + 1)

WeakLanguageIssue(term, retriever, doc_type) ==
    [issue |-> WeakIssue(term),
     severity |-> "Medium",
     suggestion |-> "Prefer firm language ('shall', specific obligations).",
     citation |-> Citation(get_relevant_documents(retriever, WeakQuery(doc_type)),
                          "ADGM Guidance/Template")]

\* a deliberately wrong variant of WeakFrom, used to test the properties: the loop stops at the first phrase found
RECURSIVE WeakFirstOnlyFrom(_, _, _, _)
WeakFirstOnlyFrom(lowers, retriever, doc_type, i) ==
    IF i > Len(WEAK_LANGUAGE) THEN <<>>
    ELSE IF Contains(lowers, WEAK_LANGUAGE[i])
         THEN <<WeakLanguageIssue(WEAK_LANGUAGE[i], retriever, doc_type)>>
         ELSE WeakFirstOnlyFrom(lowers, retriever, doc_type, i + 1)

\* 2) Weak language: the loop from term i on; no break
RECURSIVE WeakFrom(_, _, _, _)
WeakFrom(lowers, retriever, doc_type, i) ==
    IF i > Len(WEAK_LANGUAGE) THEN <<>>
    ELSE IF Contains(lowers, WEAK_LANGUAGE[i])
         THEN <<WeakLanguageIssue(WEAK_LANGUAGE[i], retriever, doc_type)>>
              \o WeakFrom(lowers, retriever, doc_type, i + 1)
         ELSE WeakFrom(lowers, retriever, doc_type, i + 1)

SignatureIssue(retriever, doc_type) ==
    [issue |-> SIGNATURE_ISSUE,
     severity |-> "High",
     suggestion |->
        "Add an authorised signatory block with name, title, date, signature.",
     citation |-> Citation(get_relevant_documents(retriever, SignQuery(doc_type)),
                          "ADGM Template")]

\* 3) Signing block present?
SignatureIssues(lowers, retriever, doc_type) ==
    IF ~AnyIn(MISSING_SIGN_KEYS, lowers)
    THEN <<SignatureIssue(retriever, doc_type)>>
    ELSE <<>>

\* a deliberately wrong variant of _find_red_flags, used to test the properties: the signature rule runs first
FindRedFlagsSignatureFirst(text, retriever, doc_type) ==
    LET lowers == Lower(text)
    IN  SignatureIssues(lowers, retriever, doc_type)
        \o JurisdictionFrom(lowers, retriever, 1)
        \o WeakFrom(lowers, retriever, doc_type, 1)

_find_red_flags(text, retriever, doc_type) ==
    LET lowers == Lower(text)
    IN  JurisdictionFrom(lowers, retriever, 1)
        \o WeakFrom(lowers, retriever, doc_type, 1)
        \o SignatureIssues(lowers, retriever, doc_type)

\* os.path: the last component of a path, and Path(path).stem
LastIndexOf(s, c) ==
    LET I == {i \in 1..Len(s) : Char(s, i) = c}
    IN  IF I = {} THEN 0 ELSE CHOOSE i \in I : \A j \in I : j <= i

PathName(path) == SubSeq(path, LastIndexOf(path, "/") + 1, Len(path))

Stem(path) ==
    LET name == PathName(path)
        dot == LastIndexOf(name, ".")
    IN  IF dot > 1 THEN SubSeq(name, 1, dot - 1) ELSE name

\* _insert_comments' return value: the path the reviewed copy is saved to
ReviewedPath(doc_path) == "outputs/reviewed/" \o Stem(doc_path) \o "_REVIEWED.docx"

REPORT_PATH == "outputs/reports/report.json"

\* doc_infos: classify doc type + extract text, per uploaded file
DocInfos(uploaded_files) ==
    [i \in 1..Len(uploaded_files) |->
        LET text == _extract_text(uploaded_files[i].paragraphs)
        IN  [name |-> uploaded_files[i].name,
             path |-> uploaded_files[i].path,
             type |-> classify_doc_type(uploaded_files[i].name, text),
             text |-> text]]

\* a deliberately wrong variant of PresentTypes, used to test the properties: "Unknown" counts as a present type and the
\* first upload's type is dropped
PresentTypesSkipFirst(infos) ==
    {infos[i].type : i \in 2..Len(infos)}

\* present_types = {d["type"] for d in doc_infos if d["type"] != "Unknown"}
PresentTypes(infos) ==
    {infos[i].type : i \in {j \in 1..Len(infos) : infos[j].type # "Unknown"}}

\* missing = [d for d in required if d not in present_types]
Missing(required, present_types) ==
    SelectSeq(required, LAMBDA d : d \notin present_types)

\* the entries one document adds to issues_found
TaggedIssues(info, issues) ==
    [k \in 1..Len(issues) |->
        [document |-> IF info.type # "Unknown" THEN info.type ELSE info.name,
         section |-> "N/A",
         issue |-> issues[k].issue,
         severity |-> issues[k].severity,
         suggestion |-> issues[k].suggestion,
         citation |-> issues[k].citation]]

analyze_documents(uploaded_files, retriever, process_hint) ==
    LET infos == DocInfos(uploaded_files)
        process == process_hint
        required == RequiredDocsGet(process)
        missing == Missing(required, PresentTypes(infos))
        issues == [i \in 1..Len(infos) |->
                      _find_red_flags(infos[i].text, retriever, infos[i].type)]
        flagged == SelectSeq([i \in 1..Len(infos) |-> i],
                             LAMBDA i : issues[i] # <<>>)
    IN  [doc_infos |-> infos,
         doc_issues |-> issues,
         report |->
            [process |-> process,
             documents_uploaded |-> Len(uploaded_files),
             required_documents |-> Len(required),
             missing_documents |-> missing,
             issues_found |->
                Flatten([i \in 1..Len(infos) |-> TaggedIssues(infos[i], issues[i])]),
             reviewed_paths |->
                [k \in 1..Len(flagged) |->
                    [original_name |-> infos[flagged[k]].name,
                     path |-> ReviewedPath(infos[flagged[k]].path)]],
             report_path |-> REPORT_PATH]]

\* ------------------------------------------- comments_util.py, _insert_comments

\* no Document is open
NoDocument == [none |-> TRUE]

\* _insert_comments is not running
NotInserting ==
    [pc |-> "idle", issues |-> <<>>, i |-> 0, target_idx |-> 0, targets |-> <<>>]

\* Document(doc_path): the paragraphs of the body, each with its text and the
\* comment references appended to it, and the comments of the comments part
Document(paragraphs) ==
    [paragraphs |-> [k \in 1..Len(paragraphs) |->
                        [text |-> paragraphs[k], comment_refs |-> 0]],
     comments |-> <<>>]

\* the characters str.strip() removes
Whitespace == {" ", "\t", "\n", "\r"}

RECURSIVE LStrip(_)
LStrip(s) ==
    IF s # "" /\ Char(s, 1) \in Whitespace THEN LStrip(Tail(s)) ELSE s

RECURSIVE RStrip(_)
RStrip(s) ==
    IF s # "" /\ Char(s, Len(s)) \in Whitespace
    THEN RStrip(SubSeq(s, 1, Len(s) - 1))
    ELSE s

\* s.strip()
Strip(s) == RStrip(LStrip(s))

\* a deliberately wrong variant of IsSubstantive, used to test the properties: three characters are enough
IsSubstantiveFrom3(text) == text # "" /\ Len(Strip(text)) >= 3

\* p.text and len(p.text.strip()) > 3
IsSubstantive(text) == text # "" /\ Len(Strip(text)) > 3

\* the loop over enumerate(doc.paragraphs) from paragraph k (1-based) on: the
\* index (0-based, as in the code) of the first substantive paragraph, or the
\* initial target_idx = 0
RECURSIVE TargetIdxFrom(_, _)
TargetIdxFrom(paragraphs, k) ==
    IF k > Len(paragraphs) THEN 0
    ELSE IF IsSubstantive(paragraphs[k].text) THEN k - 1
    ELSE TargetIdxFrom(paragraphs, k + 1)

\* note = f"{it['issue']} | Suggestion: {it['suggestion']} | Source: {it['citation']}"
Note(it) ==
    it.issue \o " | Suggestion: " \o it.suggestion \o " | Source: " \o it.citation

\* _add_comment, the try block went through: the comment is in the comments
\* part, its range is marked around the paragraph and a reference run is
\* appended to it; the run holds no text
StructuralComment(d, para_idx, text) ==
    [d EXCEPT !.comments = Append(@, text),
              !.paragraphs[para_idx + 1].comment_refs = @ + 1]

\* _add_comment, the except branch: paragraph.add_run(f" [COMMENT] {text}")
InlineComment(d, para_idx, text) ==
    [d EXCEPT !.paragraphs[para_idx + 1].text = @ \o " [COMMENT] " \o text]

\* add_comment_at_paragraph: the documents it may leave, with its result
AddCommentAtParagraph(d, para_idx, text) ==
    IF para_idx < 0 \/ para_idx >= Len(d.paragraphs)
    THEN {[doc |-> d, result |-> FALSE]}
    ELSE {[doc |-> StructuralComment(d, para_idx, text), result |-> TRUE],
          [doc |-> InlineComment(d, para_idx, text), result |-> FALSE]}

\* _insert_comments(doc_path, issues), called for the uploaded document with
\* the issues _find_red_flags found in it: doc = Document(doc_path)
OpenDocument ==
    /\ ins.pc = "idle"
    /\ doc = NoDocument
    /\ uploads # <<>>
    /\ \E text \in {_extract_text(uploads[1].paragraphs)} :
       \E issues \in {_find_red_flags(text, index,
                                      classify_doc_type(uploads[1].name, text))} :
        /\ issues # <<>>
        /\ ins' = [NotInserting EXCEPT !.pc = "loop", !.issues = issues]
    /\ doc' = Document(uploads[1].paragraphs)
    /\ UNCHANGED <<index, AnalysisVars, RagVars>>

\* one turn of the loop over the issues: the target is computed afresh and
\* the comment is added there
InsertComment ==
    /\ ins.pc = "loop"
    /\ ins.i < Len(ins.issues)
    /\ \E target_idx \in {TargetIdxFrom(doc.paragraphs, 1)} :
       \E added \in AddCommentAtParagraph(doc, target_idx, Note(ins.issues[ins.i + 1])) :
        /\ doc' = added.doc
        /\ ins' = [ins EXCEPT !.i = @ + 1,
                              !.target_idx = target_idx,
                              !.targets = Append(@, target_idx)]
    /\ UNCHANGED <<index, AnalysisVars, RagVars>>

\* doc.save(out_path); return str(out_path)
SaveReviewed ==
    /\ ins.pc = "loop"
    /\ ins.i = Len(ins.issues)
    /\ ins' = [ins EXCEPT !.pc = "saved"]
    /\ UNCHANGED <<doc, index, AnalysisVars, RagVars>>

\* ------------------------------------------------------------------ rag.py

\* _guess_filename_from_url of each of REFERENCE_URLS, in order
REFERENCE_NAMES == <<
    "branch-non-financial-services-20231228.pdf",
    "private-company-limited-by-guarantee-non-financial-services-20231228.pdf",
    "adgm-dpr-2021-appropriate-policy-document.pdf",
    "ADGM+Standard+Employment+Contract+Template+-+ER+2024+_Feb+2025_.docx",
    "ADGM+Standard+Employment+Contract+-+ER+2019+-+Short+Version+_May+2024_.docx",
    "Templates_SHReso_AmendmentArticles-v1-20220107.docx",
    "adgm-ra-resolution-multiple-incorporate-shareholders-LTD-incorporation-v2.docx" >>

\* dest = outdir / name, with outdir = _REF_DIR
RefPath(u) == "data/reference/" \o REFERENCE_NAMES[u]

\* a chunk of reference file u as the loaders and Chroma.from_texts store it:
\* its metadata names the file it came from
ChunkOf(u) == [metadata |-> [source |-> RefPath(u)]]

\* a chunk whose metadata has no "source" (an index this code did not build)
ForeignChunk == [metadata |-> [page |-> 0]]

\* the reference URLs the model fetches: the first NumRefs of REFERENCE_URLS
NumRefs == 2

Refs == 1..NumRefs

\* _download_with_headers(url, dest, retries: int = 3, ...)
retries == 3

\* data/.chroma: no index, an index that cannot be opened or queried, or the
\* index Chroma.from_texts persisted, with its chunks
NoIndex == [state |-> "missing", chunks |-> <<>>]
CorruptIndexValue == [state |-> "corrupt", chunks |-> <<>>]
BuiltIndex(chunks) == [state |-> "built", chunks |-> chunks]

\* a local reference file: absent, of zero bytes, cut short by a failed
\* transfer, or the whole document
FileStates == {"absent", "empty", "partial", "complete"}

\* dest.exists() and dest.stat().st_size > 0
ExistsNonEmpty(f) == f \in {"partial", "complete"}

\* build_or_load_vectorstore is not running
RagIdle ==
    [pc |-> "idle", force |-> FALSE, u |-> 0, attempt |-> 0,
     open_failed |-> FALSE, error |-> None]


\* build_or_load_vectorstore(force_rebuild): the directory and the
\* embeddings object are made; a forced call goes straight to the rebuild
BuildOrLoad ==
    /\ rag.pc = "idle"
    /\ \E force_rebuild \in BOOLEAN :
        rag' = [RagIdle EXCEPT !.pc = IF force_rebuild THEN "download" ELSE "open",
                               !.force = force_rebuild,
                               !.u = 1]
    /\ UNCHANGED <<index, ref_files, db, AnalysisVars, CommentVars>>

\* the try block succeeds: Chroma opens the directory and answers the smoke
\* query, and the retriever over what is persisted is returned. A directory
\* without an index opens as an empty collection when the Chroma at hand
\* answers a query on it.
OpenIndexLoaded ==
    /\ rag.pc = "open"
    /\ db.state \in {"built", "missing"}
    /\ rag' = [rag EXCEPT !.pc = "returned"]
    /\ index' = db.chunks
    /\ UNCHANGED <<ref_files, db, AnalysisVars, CommentVars>>

\* the try block raises (no index, or one that cannot be opened or queried):
\* except Exception, and the rebuild follows
OpenIndexFailed ==
    /\ rag.pc = "open"
    /\ db.state \in {"corrupt", "missing"}
    /\ rag' = [rag EXCEPT !.pc = "download", !.open_failed = TRUE]
    /\ UNCHANGED <<index, ref_files, db, AnalysisVars, CommentVars>>

\* _download_if_needed, url u: a file that exists and is not empty is used
\* as cached; any other is downloaded
DownloadIfNeeded ==
    /\ rag.pc = "download"
    /\ rag.u \in Refs
    /\ IF ~ExistsNonEmpty(ref_files[rag.u])
       THEN rag' = [rag EXCEPT !.pc = "fetch", !.attempt = 0]
       ELSE rag' = [rag EXCEPT !.u = rag.u + 1]
    /\ UNCHANGED <<index, ref_files, db, AnalysisVars, CommentVars>>

\* what a failed attempt leaves at dest: urlopen fails before dest is opened
\* and the file is as it was; or dest is opened "wb" (cut to zero bytes) and
\* the copy fails at once, or part-way, or ends with zero bytes copied
AfterFailedAttempt(f) == {f, "empty", "partial"}

\* except (HTTPError, URLError, IOError): the next attempt follows, and
\* after the last one the error is raised
AfterFailure(r) ==
    IF r.attempt + 1 < retries
    THEN [r EXCEPT !.attempt = r.attempt + 1]
    ELSE [r EXCEPT !.pc = "raised", !.error = "FetchError"]

\* _download_with_headers, one attempt that fails
FetchFailed ==
    /\ rag.pc = "fetch"
    /\ \E f \in AfterFailedAttempt(ref_files[rag.u]) :
        ref_files' = [ref_files EXCEPT ![rag.u] = f]
    /\ rag' = AfterFailure(rag)
    /\ UNCHANGED <<index, db, AnalysisVars, CommentVars>>

\* _download_with_headers, one attempt that succeeds: the whole document is
\* at dest, and _download_if_needed goes on to the next url
FetchSucceeded ==
    /\ rag.pc = "fetch"
    /\ ref_files' = [ref_files EXCEPT ![rag.u] = "complete"]
    /\ rag' = [rag EXCEPT !.pc = "download", !.u = rag.u + 1]
    /\ UNCHANGED <<index, db, AnalysisVars, CommentVars>>

\* the reference files _load_reference_docs can parse: a file cut short is
\* no PDF or DOCX and its loader fails (the failure is printed and skipped)
Loadable == {u \in Refs : ref_files[u] = "complete"}

\* the chunks of the loadable files, in the order of the urls
RECURSIVE ChunksFrom(_)
ChunksFrom(u) ==
    IF u > NumRefs THEN <<>>
    ELSE (IF u \in Loadable THEN <<ChunkOf(u)>> ELSE <<>>) \o ChunksFrom(u + 1)

\* after _download_if_needed returned: the two checks, then the index is
\* built from the loaded documents, persisted, and its retriever returned
BuildIndex ==
    /\ rag.pc = "download"
    /\ rag.u = NumRefs + 1
    /\ IF ~\E u \in Refs : ExistsNonEmpty(ref_files[u])
       THEN /\ rag' = [rag EXCEPT !.pc = "raised", !.error = "NoReferenceDocuments"]
            /\ UNCHANGED <<index, db>>
       ELSE IF Loadable = {}
       THEN /\ rag' = [rag EXCEPT !.pc = "raised", !.error = "CouldNotBeLoaded"]
            /\ UNCHANGED <<index, db>>
       ELSE /\ rag' = [rag EXCEPT !.pc = "returned"]
            /\ db' = BuiltIndex(ChunksFrom(1))
            /\ index' = ChunksFrom(1)
    /\ UNCHANGED <<ref_files, AnalysisVars, CommentVars>>

\* app.py: the call is over; an exception is shown with st.error and the
\* script stops, a retriever goes on to the analysis
CallOver ==
    /\ rag.pc \in {"returned", "raised"}
    /\ rag' = RagIdle
    /\ UNCHANGED <<index, ref_files, db, AnalysisVars, CommentVars>>

\* between calls: the persisted index stops being readable (a damaged
\* directory, a Chroma of another schema)
IndexCorrupted ==
    /\ rag.pc = "idle"
    /\ db.state = "built"
    /\ db' = CorruptIndexValue
    /\ UNCHANGED <<index, rag, ref_files, AnalysisVars, CommentVars>>

\* ------------------------------------------------------------------ app.py

\* tf.name of the i-th upload's temporary file
TempPath(i) == "/tmp/tmp" \o ToString(i) \o ".docx"

\* temp_files: (uf.name, tf.name), the file at tf.name holding the upload
TempFiles ==
    [i \in 1..Len(uploads) |->
        [name |-> uploads[i].name,
         path |-> TempPath(i),
         paragraphs |-> uploads[i].paragraphs]]

UploadNames == [i \in 1..Len(uploads) |-> uploads[i].name]

\* the process hints a caller of analyze_documents may pass
ProcessHints == Processes \cup {"Branch Registration", ""}


\* st.file_uploader: one more file is chosen; the script reruns, and the
\* results of an earlier run (locals of that run) are gone
Upload(files) ==
    /\ Len(uploads) < MaxUploads
    /\ \E f \in files : uploads' = Append(uploads, f)
    /\ process_guess' = None
    /\ doc_infos' = <<>>
    /\ doc_issues' = <<>>
    /\ report' = NoReport
    /\ UNCHANGED <<index, RagVars, CommentVars>>

\* st.file_uploader: the uploads are removed
ClearUploads ==
    /\ uploads # <<>>
    /\ uploads' = <<>>
    /\ process_guess' = None
    /\ doc_infos' = <<>>
    /\ doc_issues' = <<>>
    /\ report' = NoReport
    /\ UNCHANGED <<index, RagVars, CommentVars>>

\* any other interaction: the script reruns with the same uploads, and the
\* results of the earlier run are gone
Rerun ==
    /\ report # NoReport
    /\ process_guess' = None
    /\ doc_infos' = <<>>
    /\ doc_issues' = <<>>
    /\ report' = NoReport
    /\ UNCHANGED <<uploads, index, RagVars, CommentVars>>

\* "Analyze Submission" with the retriever loaded: the uploads are written
\* to temporary files, the process is detected and the analysis runs (once
\* per run of the script, which starts without results)
AnalyzeHandler ==
    /\ report = NoReport
    /\ uploads # <<>>
    /\ \E retriever \in {index} :
       \E guess \in {detect_process_from_docs(UploadNames)} :
       \E results \in {analyze_documents(TempFiles, retriever, guess)} :
            /\ process_guess' = guess
            /\ doc_infos' = results.doc_infos
            /\ doc_issues' = results.doc_issues
            /\ report' = results.report
    /\ UNCHANGED <<uploads, index, RagVars, CommentVars>>

\* analyze_documents called with a process hint of the caller's choice
AnalyzeDocuments ==
    /\ report = NoReport
    /\ \E hint \in ProcessHints :
       \E retriever \in {index} :
       \E results \in {analyze_documents(TempFiles, retriever, hint)} :
            /\ process_guess' = None
            /\ doc_infos' = results.doc_infos
            /\ doc_issues' = results.doc_issues
            /\ report' = results.report
    /\ UNCHANGED <<uploads, index, RagVars, CommentVars>>

\* ------------------------------------------------- the parts at rest

NoRefFiles == <<>>

AtRest ==
    /\ rag = RagIdle
    /\ ref_files = NoRefFiles
    /\ db = NoIndex
    /\ doc = NoDocument
    /\ ins = NotInserting

NoResults ==
    /\ process_guess = None
    /\ doc_infos = <<>>
    /\ doc_issues = <<>>
    /\ report = NoReport

\* --------------------------------------------- the checklist specification

\* The documents a user may upload: a name and the paragraphs of the .docx.
ChecklistFiles == {
    [name |-> "AoA.docx",
     paragraphs |-> <<"Articles of Association", "Signed by the directors">>],
    [name |-> "MoA.docx",
     paragraphs |-> <<"Memorandum of Association of the Company", "Signature">>],
    [name |-> "MoA.docx",
     paragraphs |-> <<"Memorandum, subject to the Articles of Association", "Date">>],
    [name |-> "Board.docx",
     paragraphs |-> <<"BOARD RESOLUTION", "Shareholder resolution attached", "Date">>],
    [name |-> "UBO_register.docx",
     paragraphs |-> <<"Register of Members", "Name">>],
    [name |-> "HR_Contract.docx",
     paragraphs |-> <<"Standard Employment Contract", "Signature">>],
    [name |-> "Board",
     paragraphs |-> <<"Resolution of the directors", "Date">>],
    [name |-> "Batch",
     paragraphs |-> <<"Minutes of the meeting">>],
    [name |-> "Report.docx",
     paragraphs |-> <<>>] }

InitChecklist ==
    /\ uploads = <<>>
    /\ index = <<ChunkOf(1)>>
    /\ NoResults
    /\ AtRest

NextChecklist ==
    \/ Upload(ChecklistFiles)
    \/ ClearUploads
    \/ Rerun
    \/ AnalyzeHandler
    \/ AnalyzeDocuments

SpecChecklist == InitChecklist /\ [][NextChecklist]_vars

\* ---------------------------------------------- the red-flag specification

RedFlagFiles == {
    [name |-> "Lease.docx",
     paragraphs |-> <<"Disputes are settled by the Dubai Courts", "Signature">>],
    [name |-> "Lease.docx",
     paragraphs |-> <<"UAE Federal Court, Dubai Courts and onshore UAE courts",
                      "Signed by">>],
    [name |-> "Services.docx",
     paragraphs |-> <<"The Supplier may at its discretion use best efforts", "Date">>],
    [name |-> "Services.docx",
     paragraphs |-> <<"Commercially reasonable efforts and best efforts">>],
    [name |-> "AoA.docx",
     paragraphs |-> <<"Onshore UAE forum", "The Company may at its discretion act">>],
    [name |-> "Policy.docx",
     paragraphs |-> <<"All obligations are firm", "Authorised Signatory">>],
    [name |-> "Empty.docx",
     paragraphs |-> <<>>] }

\* The indexes a retriever may stand on: an empty collection (zero hits), an
\* index built from the reference files, an index holding a chunk without a
\* "source".
IndexContents == {
    <<>>,
    <<ChunkOf(1)>>,
    <<ChunkOf(4), ForeignChunk>>,
    <<ForeignChunk, ChunkOf(4)>> }

InitRedFlags ==
    /\ uploads = <<>>
    /\ index \in IndexContents
    /\ NoResults
    /\ AtRest

NextRedFlags ==
    \/ Upload(RedFlagFiles)
    \/ ClearUploads
    \/ Rerun
    \/ AnalyzeHandler
    \/ AnalyzeDocuments

SpecRedFlags == InitRedFlags /\ [][NextRedFlags]_vars

\* ------------------------------------------------------ claims C1 .. C4

Range(seq) == {seq[i] : i \in 1..Len(seq)}

\* the type classify_doc_type assigns to the i-th upload
TypeOfUpload(i) ==
    classify_doc_type(uploads[i].name, _extract_text(uploads[i].paragraphs))

ClassifiedTypes == {TypeOfUpload(i) : i \in 1..Len(uploads)}

\* C1: the report's missing_documents is the required list of the report's
\* process, in table order, without exactly the types some upload was
\* classified as; uploads classified "Unknown" remove nothing.
C1_MissingDocuments ==
    report # NoReport =>
        LET required == RequiredDocsGet(report.process)
            missing == report.missing_documents
        IN  /\ report.required_documents = Len(required)
            /\ missing = SelectSeq(required, LAMBDA d : d \in Range(missing))
            /\ Range(missing) = Range(required) \ ClassifiedTypes
            /\ (ClassifiedTypes \subseteq {"Unknown"} => missing = required)

\* C1's case: an upload of a required type, an upload classified Unknown,
\* and documents still missing
C1_Witness ==
    /\ report # NoReport
    /\ report.process = "Company Incorporation"
    /\ "Unknown" \in ClassifiedTypes
    /\ ClassifiedTypes \cap Range(RequiredDocsGet(report.process)) # {}
    /\ Len(report.missing_documents) \in 1..6

ScenarioA ==
    /\ report # NoReport
    /\ process_guess # None
    /\ UploadNames = <<"AoA.docx", "MoA.docx">>

ScenarioAMissing ==
    << "Board Resolution", "Shareholder Resolution", "UBO Declaration Form",
       "Register of Members and Directors", "Incorporation Application Form" >>

ScenarioAResult ==
    /\ process_guess = "Company Incorporation"
    /\ report.process = "Company Incorporation"
    /\ report.required_documents = 7
    /\ report.missing_documents = ScenarioAMissing

\* C2 as stated: uploads named AoA.docx and MoA.docx, analysed by the
\* handler, give Company Incorporation, 7 required and the 5 listed missing.
C2_ScenarioA_AsStated == ScenarioA => ScenarioAResult

\* the text of the second upload holds a keyword of Articles of Association
MoATextNamesArticles ==
    AnyIn(DOC_TYPE_KEYWORDS[1].keys, Lower(_extract_text(uploads[2].paragraphs)))

\* C2, amended: Scenario A's result holds when the text of MoA.docx holds no
\* keyword of Articles of Association ("articles of association", "aoa");
\* when it holds one, MoA.docx is classified Articles of Association and
\* Memorandum of Association is missing as well (6 entries).
C2_ScenarioA ==
    ScenarioA =>
        /\ process_guess = "Company Incorporation"
        /\ report.process = "Company Incorporation"
        /\ report.required_documents = 7
        /\ IF MoATextNamesArticles
           THEN report.missing_documents =
                    <<"Memorandum of Association">> \o ScenarioAMissing
           ELSE ScenarioAResult

C2_Witness == ScenarioA /\ ~MoATextNamesArticles /\ ScenarioAResult

Permuted(seq, p) == [i \in 1..Len(seq) |-> seq[p[i]]]

\* some lower-cased filename holds one of the keys
SomeNameHolds(keys) ==
    \E i \in 1..Len(uploads) : AnyIn(keys, Lower(uploads[i].name))

\* C3: detect_process_from_docs gives the same process for every
\* permutation of the filenames: Company Incorporation when some name holds
\* an incorporation keyword, else Employment & HR when some name holds an
\* employment keyword, else the default Company Incorporation.
C3_OrderIndependent ==
    process_guess # None =>
        /\ \A p \in Permutations(1..Len(uploads)) :
                detect_process_from_docs(Permuted(UploadNames, p)) = process_guess
        /\ process_guess =
                IF SomeNameHolds(INCORPORATION_KEYS) THEN "Company Incorporation"
                ELSE IF SomeNameHolds(EMPLOYMENT_KEYS) THEN "Employment & HR"
                ELSE "Company Incorporation"

\* C3's case: two different names, the second process detected
C3_Witness ==
    /\ process_guess = "Employment & HR"
    /\ Len(uploads) >= 2
    /\ uploads[1].name # uploads[2].name

\* the table entries with a keyword in the haystack of doc_infos[i]
MatchingEntries(i) ==
    LET hay == Lower(doc_infos[i].name) \o " " \o Lower(doc_infos[i].text)
    IN  {e \in 1..Len(DOC_TYPE_KEYWORDS) :
            \E j \in 1..Len(DOC_TYPE_KEYWORDS[e].keys) :
                Contains(hay, DOC_TYPE_KEYWORDS[e].keys[j])}

\* C4: a document's type is that of the first entry of DOC_TYPE_KEYWORDS
\* with a keyword in the lower-cased filename, a space and the lower-cased
\* text, whatever later entries match too; it is "Unknown" exactly when no
\* entry matches.
C4_FirstMatchWins ==
    \A i \in 1..Len(doc_infos) :
        LET M == MatchingEntries(i)
        IN  /\ doc_infos[i].text = _extract_text(uploads[i].paragraphs)
            /\ (M = {}) <=> (doc_infos[i].type = "Unknown")
            /\ M # {} =>
                \E e \in M : /\ \A f \in M : e <= f
                             /\ doc_infos[i].type = DOC_TYPE_KEYWORDS[e].doc_type

\* C4's case: a document matching two entries typed by the first, beside a
\* document matching none
C4_Witness ==
    /\ \E i \in 1..Len(doc_infos) :
        /\ Cardinality(MatchingEntries(i)) >= 2
        /\ doc_infos[i].type = "Board Resolution"
    /\ \E i \in 1..Len(doc_infos) : doc_infos[i].type = "Unknown"

\* ------------------------------------------------------ claims C5 .. C8

Docs == 1..Len(doc_issues)

\* the lower-cased text of the i-th analysed document
LowersOf(i) == Lower(doc_infos[i].text)

\* the phrases of a list that occur in a lower-cased text
PhrasesIn(phrases, lowers) ==
    {t \in 1..Len(phrases) : Contains(lowers, phrases[t])}

\* the positions of the i-th document's issues that satisfy P
IssuesWhere(i, P(_)) == {k \in 1..Len(doc_issues[i]) : P(doc_issues[i][k])}

IsJurisdictionIssue(it) == it.issue = JURISDICTION_ISSUE
IsSignatureIssue(it) == it.issue = SIGNATURE_ISSUE
IsMedium(it) == it.severity = "Medium"

\* C5: a document's issues hold exactly one jurisdiction issue, of severity
\* High, when its lower-cased text holds at least one bad-jurisdiction
\* phrase, however many it holds, and none when it holds none.
C5_OneJurisdictionIssue ==
    \A i \in Docs :
        LET J == IssuesWhere(i, IsJurisdictionIssue)
        IN  /\ Cardinality(J) =
                IF PhrasesIn(BAD_JURISDICTION, LowersOf(i)) # {} THEN 1 ELSE 0
            /\ \A k \in J : doc_issues[i][k].severity = "High"

\* C5's case: a text with "dubai courts" and two more of the phrases
C5_Witness ==
    \E i \in Docs :
        /\ Contains(LowersOf(i), "dubai courts")
        /\ Cardinality(PhrasesIn(BAD_JURISDICTION, LowersOf(i))) = 3
        /\ Cardinality(IssuesWhere(i, IsJurisdictionIssue)) = 1

\* C6: a document has as many Medium issues as weak-commitment phrases occur
\* in its lower-cased text, one for each phrase that occurs.
C6_OneIssuePerWeakPhrase ==
    \A i \in Docs :
        LET W == PhrasesIn(WEAK_LANGUAGE, LowersOf(i))
        IN  /\ Cardinality(IssuesWhere(i, IsMedium)) = Cardinality(W)
            /\ \A t \in W :
                \E k \in IssuesWhere(i, IsMedium) :
                    doc_issues[i][k].issue = WeakIssue(WEAK_LANGUAGE[t])

\* C6's case: "may at its discretion" and "best efforts", two Medium issues
C6_Witness ==
    \E i \in Docs :
        /\ Contains(LowersOf(i), "may at its discretion")
        /\ Contains(LowersOf(i), "best efforts")
        /\ Cardinality(IssuesWhere(i, IsMedium)) = 2

\* the place of an issue in the fixed order: jurisdiction, the weak phrases
\* in list order, signature
RuleRank(it) ==
    IF it.issue = JURISDICTION_ISSUE THEN 0
    ELSE IF it.issue = SIGNATURE_ISSUE THEN Len(WEAK_LANGUAGE) + 1
    ELSE CHOOSE t \in 1..Len(WEAK_LANGUAGE) : it.issue = WeakIssue(WEAK_LANGUAGE[t])

\* C7: a text with no signature keyword gets exactly one missing-signatory
\* issue, of severity High, as the last issue of its list; every list is in
\* the order jurisdiction, weak phrases in list order, signature, with no
\* issue twice.
C7_SignatureLastAndOrder ==
    \A i \in Docs :
        LET issues == doc_issues[i]
            S == IssuesWhere(i, IsSignatureIssue)
        IN  /\ ~AnyIn(MISSING_SIGN_KEYS, LowersOf(i)) =>
                /\ S = {Len(issues)}
                /\ issues # <<>>
                /\ issues[Len(issues)].severity = "High"
            /\ \A k \in 1..Len(issues) :
                \/ issues[k].issue \in {JURISDICTION_ISSUE, SIGNATURE_ISSUE}
                \/ \E t \in 1..Len(WEAK_LANGUAGE) :
                        issues[k].issue = WeakIssue(WEAK_LANGUAGE[t])
            /\ \A k, l \in 1..Len(issues) :
                k < l => RuleRank(issues[k]) < RuleRank(issues[l])

\* C7's case: a text without signature keyword that has a jurisdiction and a
\* weak-language issue before the signature issue
C7_Witness ==
    \E i \in Docs :
        /\ ~AnyIn(MISSING_SIGN_KEYS, LowersOf(i))
        /\ Len(doc_issues[i]) = 3
        /\ IsJurisdictionIssue(doc_issues[i][1])
        /\ IsMedium(doc_issues[i][2])
        /\ IsSignatureIssue(doc_issues[i][3])

\* the fixed fallback label of the rule an issue comes from
FallbackLabel(it) ==
    IF it.issue = JURISDICTION_ISSUE THEN "ADGM Regulation"
    ELSE IF it.issue = SIGNATURE_ISSUE THEN "ADGM Template"
    ELSE "ADGM Guidance/Template"

\* the citation the index gives an issue: the source of the top reference
\* when there is one and it names its source, the rule's fallback label
\* otherwise (in particular when nothing is retrieved)
ExpectedCitation(it) ==
    IF index # <<>> /\ "source" \in DOMAIN index[1].metadata
    THEN index[1].metadata.source
    ELSE FallbackLabel(it)

\* C8: every issue of _find_red_flags, and every entry of the report's
\* issues_found, has a non-empty citation: the source of the top retrieved
\* reference, or the fallback label of its rule when nothing is retrieved.
C8_CitationNeverEmpty ==
    /\ \A i \in Docs : \A k \in 1..Len(doc_issues[i]) :
        /\ doc_issues[i][k].citation # ""
        /\ doc_issues[i][k].citation = ExpectedCitation(doc_issues[i][k])
    /\ report # NoReport =>
        /\ \A k \in 1..Len(report.issues_found) :
                report.issues_found[k].citation # ""
        /\ [k \in 1..Len(report.issues_found) |-> report.issues_found[k].citation]
            = Flatten([i \in Docs |->
                        [k \in 1..Len(doc_issues[i]) |-> doc_issues[i][k].citation]])

\* C8's case: the retriever returns zero hits and the report lists issues of
\* all three rules, each with its fallback label
C8_Witness ==
    /\ index = <<>>
    /\ report # NoReport
    /\ {report.issues_found[k].citation : k \in 1..Len(report.issues_found)}
        = {"ADGM Regulation", "ADGM Guidance/Template", "ADGM Template"}

\* ------------------------------------------- the reference-index specification

InitRag ==
    /\ uploads = <<>>
    /\ NoResults
    /\ index = <<>>
    /\ rag = RagIdle
    /\ ref_files = [u \in Refs |-> "absent"]
    /\ db = NoIndex
    /\ doc = NoDocument
    /\ ins = NotInserting

NextRag ==
    \/ BuildOrLoad
    \/ OpenIndexLoaded
    \/ OpenIndexFailed
    \/ DownloadIfNeeded
    \/ FetchFailed
    \/ FetchSucceeded
    \/ BuildIndex
    \/ CallOver
    \/ IndexCorrupted

SpecRag == InitRag /\ [][NextRag]_vars

\* --------------------------------------------------------------- claim C9

\* C9 as stated: in a call with force_rebuild=False a failure to open or
\* query the persisted index is not raised to the caller but followed by the
\* rebuild, and the call ends in an error only if the rebuild has no usable
\* reference file.
C9_FatalOnlyWithoutReferences ==
    /\ (rag.pc = "raised" /\ ~rag.force) => rag.open_failed
    /\ (rag.pc \in {"download", "fetch"} /\ ~rag.force) => rag.open_failed
    /\ (rag.pc = "raised" /\ ~rag.force) =>
            ~\E u \in Refs : ref_files[u] = "complete"

\* -------------------------------------------------------------- claim C11

\* the urls _download_if_needed has gone past in the running call: their
\* dest was either used as cached or fetched, and appended to paths
PathsAppended ==
    IF rag.pc \in {"download", "fetch"} THEN 1..(rag.u - 1) ELSE {}

\* C11 as stated: in every run of the reference download, also after runs in
\* which a transfer failed part-way and the retries were exhausted, a local
\* file that _download_if_needed uses (as cached, without fetching it again,
\* or freshly fetched) is a completed download, never a file cut short by a
\* failed attempt.
C11_CachedIsComplete ==
    \A u \in PathsAppended : ref_files[u] = "complete"

\* ---------------------------------------------- the annotation specification

CommentFiles == {
    [name |-> "Notes.docx",
     paragraphs |-> <<"", "  ", "a b c", "Best efforts apply">>],
    [name |-> "Lease.docx",
     paragraphs |-> <<"Title", "Dubai Courts decide; best efforts">>],
    [name |-> "Short.docx",
     paragraphs |-> <<"ab", "", " x ">>],
    [name |-> "Empty.docx",
     paragraphs |-> <<>>],
    [name |-> "AoA.docx",
     paragraphs |-> <<"    ", "abc ", "  abcd  ", "may at its discretion">>],
    [name |-> "Forum.docx",
     paragraphs |-> <<"a  b", "Onshore UAE", "Commercially reasonable efforts">>] }

InitComments ==
    /\ uploads \in {<<f>> : f \in CommentFiles}
    /\ index \in {<<>>, <<ChunkOf(1)>>}
    /\ NoResults
    /\ AtRest

NextComments ==
    \/ OpenDocument
    \/ InsertComment
    \/ SaveReviewed

SpecComments == InitComments /\ [][NextComments]_vars

\* -------------------------------------------------------------- claim C10

\* the paragraphs of the document as it was opened
Original == uploads[1].paragraphs

NonWhitespace(s) == {k \in 1..Len(s) : Char(s, k) \notin Whitespace}

\* the length of a text from its first to its last non-whitespace character
StrippedLength(s) ==
    IF NonWhitespace(s) = {} THEN 0
    ELSE (CHOOSE k \in NonWhitespace(s) : \A l \in NonWhitespace(s) : l <= k)
         - (CHOOSE k \in NonWhitespace(s) : \A l \in NonWhitespace(s) : k <= l) + 1

\* the index (from 0) of the first original paragraph that satisfies P
FirstParagraph(P(_)) ==
    (CHOOSE k \in 1..Len(Original) :
        /\ P(Original[k])
        /\ \A l \in 1..(k - 1) : ~P(Original[l])) - 1

MoreThan3NonWhitespace(s) == Cardinality(NonWhitespace(s)) > 3
StrippedLongerThan3(s) == StrippedLength(s) > 3

\* C10 as stated: every issue's comment is anchored to the first paragraph
\* with more than 3 non-whitespace characters, the same for all issues.
C10_AnchorAsStated ==
    (\E k \in 1..Len(Original) : MoreThan3NonWhitespace(Original[k])) =>
        \A n \in 1..Len(ins.targets) :
            ins.targets[n] = FirstParagraph(MoreThan3NonWhitespace)

\* C10, amended: every issue's comment is anchored to the first paragraph
\* whose text, without its leading and trailing whitespace, is longer than 3
\* characters (whitespace inside it counts), and to paragraph 0 when there is
\* none; the anchor is computed afresh for each issue and is the same
\* paragraph for all issues of the document, whether the earlier comments
\* went in as comments or as inline text; the other paragraphs are unchanged.
C10_SameAnchor ==
    doc # NoDocument =>
        LET anchor == IF \E k \in 1..Len(Original) : StrippedLongerThan3(Original[k])
                      THEN FirstParagraph(StrippedLongerThan3)
                      ELSE 0
        IN  /\ \A n \in 1..Len(ins.targets) : ins.targets[n] = anchor
            /\ Len(ins.targets) = ins.i
            /\ Len(doc.paragraphs) = Len(Original)
            /\ \A k \in 1..Len(Original) :
                k # anchor + 1 =>
                    doc.paragraphs[k] = [text |-> Original[k], comment_refs |-> 0]
            /\ Original # <<>> =>
                /\ SubSeq(doc.paragraphs[anchor + 1].text, 1, Len(Original[anchor + 1]))
                    = Original[anchor + 1]
                /\ \A n \in 1..ins.i :
                    \/ \E c \in 1..Len(doc.comments) :
                            doc.comments[c] = Note(ins.issues[n])
                    \/ Contains(doc.paragraphs[anchor + 1].text,
                                " [COMMENT] " \o Note(ins.issues[n]))

\* C10's case: the second issue is anchored after the first went in as inline
\* text and the anchor is a paragraph with whitespace before and inside it
C10_Witness ==
    /\ doc # NoDocument
    /\ Len(ins.targets) >= 2
    /\ ins.targets[2] = 2
    /\ doc.comments = <<>>
    /\ Cardinality(NonWhitespace(Original[3])) <= 3

=============================================================================
